---- MODULE Spec2Model ----
(***************************************************************************)
(* A model of the MLLP frame codec of hl7-mllp-codec (src/src/lib.rs).     *)
(*                                                                         *)
(* Byte buffers (BytesMut) are sequences of bytes.  Rust indexes them from *)
(* 0 and TLA+ sequences from 1: every offset below is the Rust offset, and *)
(* At(s, i) is the byte at Rust index i.                                   *)
(***************************************************************************)
EXTENDS Integers, Sequences, FiniteSets, TLC

(***************************************************************************)
(* Bounds of the model.                                                    *)
(***************************************************************************)
MaxBuf == 6

\* the bytes the model draws from: the header byte, the two footer bytes
\* and one ordinary payload byte ('a')
Byte == {11, 13, 28, 97}

(***************************************************************************)
(* Constants of the codec.                                                 *)
(***************************************************************************)
BLOCK_HEADER == 11

BLOCK_FOOTER == <<28, 13>>

\* Option::None of an Option<usize>; Some(i) is the number i
None == -1

(***************************************************************************)
(* Buffer primitives (bytes::BytesMut).                                    *)
(***************************************************************************)
At(s, i) == s[i + 1]

\* split_to that leaves the last byte split off in the buffer as well
split_to_overlap(s, at) ==
  [front |-> SubSeq(s, 1, at), rest |-> SubSeq(s, at, Len(s))]

\* BytesMut::split_to(at): the bytes [0, at) are split off, the buffer keeps
\* [at, len)
split_to(s, at) ==
  [front |-> SubSeq(s, 1, at), rest |-> SubSeq(s, at + 1, Len(s))]

\* advance that stops one byte short
advance_short(s, cnt) == SubSeq(s, cnt, Len(s))

\* Buf::advance(cnt): drops the first cnt bytes (the caller checks
\* cnt <= len, beyond which advance panics)
advance(s, cnt) == SubSeq(s, cnt + 1, Len(s))

\* src.iter().position(|b| *b == byte): the scan from index i on
RECURSIVE position_from(_, _, _)
position_from(s, byte, i) ==
  IF i >= Len(s) THEN None
  ELSE IF At(s, i) = byte THEN i
  ELSE position_from(s, byte, i + 1)

position(s, byte) == position_from(s, byte, 0)

\* a footer loop that consumes the peeked byte too, and so looks at even
\* offsets only
RECURSIVE footer_loop_skip(_, _)
footer_loop_skip(s, i) ==
  IF i + 1 < Len(s)
  THEN IF At(s, i) = 28 /\ At(s, i + 1) = 13 THEN i
       ELSE footer_loop_skip(s, i + 2)
  ELSE -1

(***************************************************************************)
(* MllpCodec::get_footer_position: the peekable loop.  One round takes     *)
(* cur = iter.next() and next = iter.peek().                               *)
(***************************************************************************)
RECURSIVE footer_loop(_, _)
footer_loop(s, i) ==
  LET cur_some == i < Len(s)
      next_some == i + 1 < Len(s)
  IN IF cur_some /\ next_some
     THEN IF At(s, i) = BLOCK_FOOTER[1] /\ At(s, i + 1) = BLOCK_FOOTER[2]
          THEN i
          ELSE footer_loop(s, i + 1)
     ELSE IF ~next_some THEN None
     ELSE footer_loop(s, i + 1)

\* a footer locator that returns the last footer pair of the buffer
get_footer_position_last(s) ==
  LET at == {i \in 0..(Len(s) - 2) : At(s, i) = 28 /\ At(s, i + 1) = 13}
  IN IF at = {} THEN -1 ELSE CHOOSE i \in at : \A j \in at : j <= i

\* a footer locator that stops one byte early and misses a pair that ends
\* the buffer
get_footer_position_short(s) == footer_loop(SubSeq(s, 1, Len(s) - 1), 0)

get_footer_position(s) == footer_loop(s, 0)

(***************************************************************************)
(* Encoder::encode: the output buffer after the call.  reserve() changes   *)
(* the capacity only; the call returns Ok(()).                             *)
(***************************************************************************)
\* an encode that starts from a cleared output buffer
encode_cleared(event, out) == <<11>> \o event \o <<28, 13>>

encode(event, out) ==
  LET d1 == Append(out, BLOCK_HEADER)
      d2 == d1 \o event
      d3 == d2 \o BLOCK_FOOTER
  IN d3

(***************************************************************************)
(* Decoder::decode: the outcome of one call on the buffer s.               *)
(*   kind "none"  : Ok(None)                                               *)
(*   kind "some"  : Ok(Some(payload))                                      *)
(*   kind "panic" : result.advance(start_offset + 1) is called with a      *)
(*                  count beyond the length of result and panics (the      *)
(*                  assertion of bytes' advance); src has been split by    *)
(*                  then                                                   *)
(* buf is the buffer the call leaves.                                      *)
(***************************************************************************)
\* the fall-through of decode: Ok(None), src untouched
no_frame(s) == [kind |-> "none", payload |-> <<>>, buf |-> s]

\* a take_frame that cuts the payload one byte late, keeping the footer's
\* first byte
take_frame_late(s, start_offset, end_offset) ==
  LET taken == split_to(s, end_offset + 2)
      result == split_to(taken.front, end_offset + 1).front
  IN IF start_offset + 1 > Len(result)
     THEN [kind |-> "panic", payload |-> <<>>, buf |-> taken.rest]
     ELSE [kind |-> "some",
           payload |-> advance(result, start_offset + 1),
           buf |-> taken.rest]

\* the branch of decode that has a header and a footer offset
take_frame(s, start_offset, end_offset) ==
  LET taken == split_to(s, end_offset + 2)
      result == split_to(taken.front, end_offset).front
  IN IF start_offset + 1 > Len(result)
     THEN [kind |-> "panic", payload |-> <<>>, buf |-> taken.rest]
     ELSE [kind |-> "some",
           payload |-> advance(result, start_offset + 1),
           buf |-> taken.rest]

\* a decode that throws the buffer away when it holds no header byte
decode_drop_garbage(s) ==
  LET start_offset == position(s, 11)
  IN IF start_offset = -1 THEN no_frame(<<>>)
     ELSE LET end_offset == get_footer_position(s)
          IN IF end_offset = -1 THEN no_frame(s)
             ELSE take_frame(s, start_offset, end_offset)

\* a decode that, finding a header and no footer, drops the bytes before
\* the header
decode_trim(s) ==
  LET start_offset == position(s, 11)
  IN IF start_offset = -1 THEN no_frame(s)
     ELSE LET end_offset == get_footer_position(s)
          IN IF end_offset = -1 THEN no_frame(advance(s, start_offset))
             ELSE take_frame(s, start_offset, end_offset)

\* a decode that, finding a header and no footer, consumes the partial frame
decode_eager(s) ==
  LET start_offset == position(s, 11)
  IN IF start_offset = -1 THEN no_frame(s)
     ELSE LET end_offset == get_footer_position(s)
          IN IF end_offset = -1 THEN no_frame(<<>>)
             ELSE take_frame(s, start_offset, end_offset)

decode(s) ==
  LET start_offset == position(s, BLOCK_HEADER)
  IN IF start_offset = None THEN no_frame(s)
     ELSE LET end_offset == get_footer_position(s)
          IN IF end_offset = None THEN no_frame(s)
             ELSE take_frame(s, start_offset, end_offset)

(***************************************************************************)
(* State.                                                                  *)
(*   src       : the receive buffer the transport owns and decode consumes *)
(*   dst       : the output buffer encode appends to; what the sender has  *)
(*               written and the receiver has not yet been handed          *)
(*   op        : the last call made                                        *)
(*   pre       : the buffer the last call was made on, as it was then      *)
(*   event     : the payload the last encode call was given                *)
(*   ret       : what the last encode or decode call produced              *)
(*   footer    : what the last get_footer_position call returned           *)
(*   sent      : the payloads passed to encode so far, in order            *)
(*   delivered : the payloads decode has returned so far, in order         *)
(*   draining  : the transport is in its decode loop                       *)
(*   cut       : some chunk so far ended between a footer's 0x1C and 0x0D  *)
(***************************************************************************)
VARIABLES src, dst, op, pre, event, ret, footer, sent, delivered, draining, cut

vars == <<src, dst, op, pre, event, ret, footer, sent, delivered, draining, cut>>

NoRet == [kind |-> "none", payload |-> <<>>]

Init ==
  /\ src = <<>>
  /\ dst = <<>>
  /\ op = "new"
  /\ pre = <<>>
  /\ event = <<>>
  /\ ret = NoRet
  /\ footer = None
  /\ sent = <<>>
  /\ delivered = <<>>
  /\ draining = FALSE
  /\ cut = FALSE

\* a panic ends the task that drives the codec
Running == ret.kind # "panic"

(***************************************************************************)
(* The receiving side on arbitrary input: the transport appends whatever   *)
(* bytes arrive and the codec is called on the buffer.                     *)
(***************************************************************************)
\* the transport appends one received byte (BytesMut::extend_from_slice)
Receive ==
  /\ Running
  /\ Len(src) < MaxBuf
  /\ \E b \in Byte : src' = Append(src, b)
  /\ op' = "receive"
  /\ pre' = <<>>
  /\ ret' = NoRet
  /\ footer' = None
  /\ UNCHANGED <<dst, event, sent, delivered, draining, cut>>

\* one call of Decoder::decode on src
Decode ==
  /\ Running
  /\ LET r == decode(src)
     IN /\ src' = r.buf
        /\ ret' = [kind |-> r.kind, payload |-> r.payload]
  /\ op' = "decode"
  /\ pre' = src
  /\ footer' = None
  /\ UNCHANGED <<dst, event, sent, delivered, draining, cut>>

\* one call of MllpCodec::get_footer_position on src (borrowed immutably)
FindFooter ==
  /\ Running
  /\ footer' = get_footer_position(src)
  /\ op' = "find"
  /\ pre' = src
  /\ ret' = NoRet
  /\ UNCHANGED <<src, dst, event, sent, delivered, draining, cut>>

Next == Receive \/ Decode \/ FindFooter

Spec == Init /\ [][Next]_vars

(***************************************************************************)
(* The sending side on arbitrary input: encode is called with any payload  *)
(* on an output buffer that holds any bytes already.                       *)
(***************************************************************************)
MaxPrior == 2

MaxEvent == 2

MaxDst == 8

EncInit ==
  /\ dst \in UNION {[1..k -> Byte] : k \in 0..MaxPrior}
  /\ src = <<>>
  /\ op = "new"
  /\ pre = <<>>
  /\ event = <<>>
  /\ ret = NoRet
  /\ footer = None
  /\ sent = <<>>
  /\ delivered = <<>>
  /\ draining = FALSE
  /\ cut = FALSE

\* one call of Encoder::encode(event, dst), which returns Ok(())
Encode ==
  /\ \E e \in UNION {[1..k -> Byte] : k \in 0..MaxEvent} :
       /\ Len(dst) + Len(e) + 3 <= MaxDst
       /\ event' = e
       /\ dst' = encode(e, dst)
  /\ op' = "encode"
  /\ pre' = dst
  /\ ret' = [kind |-> "ok", payload |-> <<>>]
  /\ UNCHANGED <<src, footer, sent, delivered, draining, cut>>

EncNext == Encode

EncSpec == EncInit /\ [][EncNext]_vars

(***************************************************************************)
(* Both sides over a byte stream.  The sender encodes payloads that hold   *)
(* neither the header byte nor the footer pair; the stream hands the       *)
(* encoded bytes to the receiver in chunks of any size; after each chunk   *)
(* the transport calls decode until it returns Ok(None).                   *)
(***************************************************************************)
MaxFrames == 3

MaxPayload == 2

MaxStream == 10

\* the payloads the sender frames: no 0x0B, no 0x1C followed by 0x0D
Payload ==
  {p \in UNION {[1..k -> Byte \ {BLOCK_HEADER}] : k \in 0..MaxPayload} :
     \A i \in 1..(Len(p) - 1) : ~(p[i] = BLOCK_FOOTER[1] /\ p[i + 1] = BLOCK_FOOTER[2])}

\* the bytes encode has written for the payloads ps: event.len() + 3 each
RECURSIVE StreamLen(_)
StreamLen(ps) ==
  IF ps = <<>> THEN 0 ELSE Len(Head(ps)) + 3 + StreamLen(Tail(ps))

\* the sender frames one more payload into the output buffer
Send ==
  /\ Running
  /\ Len(sent) < MaxFrames
  /\ \E p \in Payload :
       /\ StreamLen(sent) + Len(p) + 3 <= MaxStream
       /\ dst' = encode(p, dst)
       /\ sent' = Append(sent, p)
       /\ event' = p
  /\ UNCHANGED <<src, op, pre, ret, footer, delivered, draining, cut>>

\* the first n bytes written arrive and the transport appends them to src
Arrive ==
  /\ Running
  /\ ~draining
  /\ \E n \in 1..Len(dst) :
       /\ src' = src \o SubSeq(dst, 1, n)
       /\ dst' = SubSeq(dst, n + 1, Len(dst))
       /\ cut' = (cut \/ (n < Len(dst) /\ dst[n] = BLOCK_FOOTER[1]
                                        /\ dst[n + 1] = BLOCK_FOOTER[2]))
  /\ draining' = TRUE
  /\ op' = "receive"
  /\ pre' = <<>>
  /\ ret' = NoRet
  /\ UNCHANGED <<event, footer, sent, delivered>>

\* one round of the transport's decode loop
Poll ==
  /\ Running
  /\ draining
  /\ LET r == decode(src)
     IN /\ src' = r.buf
        /\ ret' = [kind |-> r.kind, payload |-> r.payload]
        /\ delivered' = IF r.kind = "some" THEN Append(delivered, r.payload)
                        ELSE delivered
        /\ draining' = (r.kind = "some")
  /\ op' = "poll"
  /\ pre' = src
  /\ UNCHANGED <<dst, event, footer, sent, cut>>

StreamNext == Send \/ Arrive \/ Poll

StreamSpec == Init /\ [][StreamNext]_vars

StreamFairSpec == StreamSpec /\ WF_vars(Arrive) /\ WF_vars(Poll)

(***************************************************************************)
(* The decode loop alone: the buffer holds any bytes, nothing more arrives *)
(* and the transport calls decode until it returns Ok(None).               *)
(***************************************************************************)
DrainInit ==
  /\ src \in UNION {[1..k -> Byte] : k \in 0..MaxBuf}
  /\ dst = <<>>
  /\ op = "receive"
  /\ pre = <<>>
  /\ event = <<>>
  /\ ret = NoRet
  /\ footer = None
  /\ sent = <<>>
  /\ delivered = <<>>
  /\ draining = TRUE
  /\ cut = FALSE

DrainNext == Poll

DrainSpec == DrainInit /\ [][DrainNext]_vars

(***************************************************************************)
(* Vocabulary of the properties, stated on byte sequences directly.        *)
(***************************************************************************)
\* s holds the header byte 0x0B somewhere
HasHeader(s) == \E i \in 1..Len(s) : s[i] = 11

\* the pair 0x1C,0x0D starts at Rust index i of s
PairAt(s, i) == i >= 0 /\ i + 2 <= Len(s) /\ s[i + 1] = 28 /\ s[i + 2] = 13

HasPair(s) == \E i \in 0..(Len(s) - 2) : PairAt(s, i)

\* a payload free of the header byte and of the footer pair
Clean(p) == ~HasHeader(p) /\ ~HasPair(p)

\* the bytes of s from Rust index i on
From(s, i) == SubSeq(s, i + 1, Len(s))

DecodeCalled == op = "decode"

(***************************************************************************)
(* C1: round trip.  For every payload P free of 0x0B and of the pair       *)
(* 0x1C,0x0D, decode on the buffer that encode(P) makes of an empty        *)
(* buffer returns Some(P) and leaves the buffer empty.                     *)
(***************************************************************************)
C1_RoundTrip ==
  DecodeCalled =>
    LET P == SubSeq(pre, 2, Len(pre) - 2)
    IN (Len(pre) >= 3 /\ Clean(P) /\ pre = encode(P, <<>>)) =>
         /\ ret = [kind |-> "some", payload |-> P]
         /\ src = <<>>

C1_Witness ==
  /\ DecodeCalled
  /\ pre = encode(<<97, 28, 97>>, <<>>)
  /\ ret.kind = "some"

(***************************************************************************)
(* C3: decode is total.  Every decode call, whatever the buffer holds,     *)
(* completes with no-frame-yet or Some(payload): it yields no error and    *)
(* does not abort.                                                         *)
(***************************************************************************)
C3_DecodeTotal == DecodeCalled => ret.kind \in {"none", "some"}

(***************************************************************************)
(* C4: leading garbage is skipped.  For every garbage prefix G free of     *)
(* 0x0B and every clean payload P, decode on G ++ 0x0B ++ P ++ 0x1C,0x0D   *)
(* returns Some(P) and leaves the buffer empty.                            *)
(***************************************************************************)
C4_GarbageSkipped ==
  DecodeCalled =>
    \A g \in 0..(Len(pre) - 3) :
      LET G == SubSeq(pre, 1, g)
          P == SubSeq(pre, g + 2, Len(pre) - 2)
      IN (pre = G \o <<11>> \o P \o <<28, 13>> /\ ~HasHeader(G) /\ Clean(P)) =>
           /\ ret = [kind |-> "some", payload |-> P]
           /\ src = <<>>

(***************************************************************************)
(* C5: on a buffer without the header byte 0x0B (the empty buffer, and a   *)
(* buffer holding the pair 0x1C,0x0D, included) decode returns             *)
(* no-frame-yet and the buffer is as it was before the call.               *)
(***************************************************************************)
C5_NoHeaderUnchanged ==
  (DecodeCalled /\ ~HasHeader(pre)) => (ret.kind = "none" /\ src = pre)

C5_Witness ==
  /\ DecodeCalled
  /\ pre = <<97, 28, 13, 97>>
  /\ src = pre

(***************************************************************************)
(* C6: on a buffer holding a header byte but no adjacent pair 0x1C,0x0D    *)
(* (a buffer ending in a lone 0x1C included) decode returns no-frame-yet   *)
(* and the buffer, header included, is as it was before the call.          *)
(***************************************************************************)
C6_NoFooterUnchanged ==
  (DecodeCalled /\ HasHeader(pre) /\ ~HasPair(pre)) =>
    (ret.kind = "none" /\ src = pre)

C6_Witness ==
  /\ DecodeCalled
  /\ pre = <<97, 11, 13, 97, 28>>
  /\ src = pre

(***************************************************************************)
(* C7: whenever decode returns Some(payload), the buffer it leaves is the  *)
(* old buffer from the byte after its first footer pair on: old[e + 2 ..]  *)
(* where e is the least index of a pair 0x1C,0x0D.                         *)
(***************************************************************************)
C7_TailKept ==
  (DecodeCalled /\ ret.kind = "some") =>
    \E e \in 0..(Len(pre) - 2) :
      /\ PairAt(pre, e)
      /\ \A j \in 0..(e - 1) : ~PairAt(pre, j)
      /\ src = From(pre, e + 2)

C7_Witness ==
  /\ DecodeCalled
  /\ ret.kind = "some"
  /\ pre = <<11, 97, 28, 13, 97, 13>>
  /\ src = <<97, 13>>

(***************************************************************************)
(* C10: footer locator.  get_footer_position returns the least index i     *)
(* with buffer[i] = 0x1C and buffer[i+1] = 0x0D, returns not-found exactly *)
(* when the buffer holds no such pair, and leaves the buffer as it was.    *)
(***************************************************************************)
C10_FooterLocator ==
  op = "find" =>
    /\ src = pre
    /\ (footer = None) <=> ~HasPair(pre)
    /\ footer # None =>
         /\ PairAt(pre, footer)
         /\ \A j \in 0..(footer - 1) : ~PairAt(pre, j)

C10_Witness ==
  /\ op = "find"
  /\ pre = <<28, 97, 28, 13, 28, 13>>
  /\ footer = 2

(***************************************************************************)
(* C9: for every payload P and every prior content D of the output buffer  *)
(* encode succeeds and leaves the buffer equal to                          *)
(* D ++ 0x0B ++ P ++ 0x1C ++ 0x0D: it grows by len(P) + 3 bytes, the       *)
(* payload is copied unchanged and the bytes already there are untouched.  *)
(***************************************************************************)
C9_EncodeAppends ==
  op = "encode" =>
    /\ ret.kind = "ok"
    /\ Len(dst) = Len(pre) + Len(event) + 3
    /\ SubSeq(dst, 1, Len(pre)) = pre
    /\ dst[Len(pre) + 1] = 11
    /\ SubSeq(dst, Len(pre) + 2, Len(pre) + 1 + Len(event)) = event
    /\ SubSeq(dst, Len(dst) - 1, Len(dst)) = <<28, 13>>

C9_Witness ==
  /\ op = "encode"
  /\ pre = <<97, 28>>
  /\ event = <<28, 13>>
  /\ dst = <<97, 28, 11, 28, 13, 28, 13>>

(***************************************************************************)
(* The frames of a list of payloads, one after the other.                  *)
(***************************************************************************)
RECURSIVE Frames(_)
Frames(ps) ==
  IF ps = <<>> THEN <<>>
  ELSE <<11>> \o Head(ps) \o <<28, 13>> \o Frames(Tail(ps))

IsPrefix(a, b) == Len(a) <= Len(b) /\ a = SubSeq(b, 1, Len(a))

(***************************************************************************)
(* C2: chunking independence.  However the frames of clean payloads        *)
(* P1..Pn are split into chunks, with decode called after each chunk until *)
(* it returns no-frame-yet, the payloads returned are P1..Pn in order:     *)
(* what has been returned is always the payloads of the frames that have   *)
(* arrived in full, and it is all of P1..Pn once every byte has arrived    *)
(* and the decode loop has ended.                                          *)
(***************************************************************************)
C2_ChunkingIndependence ==
  /\ Running
  /\ IsPrefix(delivered, sent)
  /\ (dst = <<>> /\ ~draining) => (delivered = sent /\ src = <<>>)

C2_Witness ==
  /\ Len(sent) = 2
  /\ delivered = sent
  /\ sent[1] = <<97, 28>>
  /\ sent[2] = <<13, 28>>
  /\ dst = <<>>
  /\ ~draining
  /\ cut

(***************************************************************************)
(* C8: queued frames.  When the buffer holds the frames of k >= 2 clean    *)
(* payloads P1..Pk, the i-th of k decode calls returns Some(Pi) and leaves *)
(* the frames of P(i+1)..Pk; the k-th call leaves the buffer empty.        *)
(* Stated for one call: on the frames of a list of payloads, decode        *)
(* returns the first payload and leaves the frames of the others.          *)
(***************************************************************************)
C8_QueuedFrames ==
  op = "poll" =>
    \A j \in 1..Len(sent) : \A k \in j..Len(sent) :
      pre = Frames(SubSeq(sent, j, k)) =>
        /\ ret = [kind |-> "some", payload |-> sent[j]]
        /\ src = Frames(SubSeq(sent, j + 1, k))

C8_Witness ==
  /\ op = "poll"
  /\ Len(sent) = 3
  /\ pre = Frames(sent)
  /\ src = Frames(Tail(sent))
  /\ delivered = <<sent[1]>>
  /\ sent[1] # sent[2]

\* the least Rust index of s that holds the header byte, given there is one
FirstHeader(s) == CHOOSE i \in 0..(Len(s) - 1) :
  s[i + 1] = 11 /\ \A j \in 0..(i - 1) : s[j + 1] # 11

\* the least Rust index of s where a footer pair starts, given there is one
FirstPair(s) == CHOOSE i \in 0..(Len(s) - 2) :
  PairAt(s, i) /\ \A j \in 0..(i - 1) : ~PairAt(s, j)

(***************************************************************************)
(* C12: a decode call changes the receive buffer only when it returns      *)
(* Some(payload); in every other outcome the buffer is as it was before    *)
(* the call, and no decode call makes the buffer longer.                   *)
(***************************************************************************)
C12_ChangedOnlyOnSome ==
  DecodeCalled =>
    /\ ret.kind # "some" => src = pre
    /\ Len(src) <= Len(pre)

(***************************************************************************)
(* C13: whenever the buffer holds a header byte and a footer pair, decode  *)
(* takes the first pair of the whole buffer, at e (also when it lies       *)
(* before the header), removes the bytes [0, e + 2) from the front of the  *)
(* buffer and returns Some(payload).                                       *)
(***************************************************************************)
C13_FirstPairTaken ==
  (DecodeCalled /\ HasHeader(pre) /\ HasPair(pre)) =>
    /\ ret.kind = "some"
    /\ src = From(pre, FirstPair(pre) + 2)

(***************************************************************************)
(* C14: whenever decode returns Some(payload), the first header byte of    *)
(* the old buffer lies before its first footer pair and the payload is the *)
(* bytes strictly between them, old[start_offset + 1 .. end_offset); it    *)
(* may be empty.                                                           *)
(***************************************************************************)
C14_PayloadBetween ==
  (DecodeCalled /\ ret.kind = "some") =>
    /\ HasHeader(pre)
    /\ HasPair(pre)
    /\ FirstHeader(pre) < FirstPair(pre)
    /\ ret.payload = SubSeq(pre, FirstHeader(pre) + 2, FirstPair(pre))

C14_Witness ==
  /\ DecodeCalled
  /\ pre = <<97, 11, 13, 11, 28, 13>>
  /\ ret = [kind |-> "some", payload |-> <<13, 11>>]

(***************************************************************************)
(* C15: the decode loop terminates.  Every decode call that returns        *)
(* Some(payload) shortens the buffer by at least 3 bytes, so with nothing  *)
(* appended the loop on any buffer comes to an end, and the call it ends   *)
(* on is one that returns no-frame-yet.                                    *)
(***************************************************************************)
C15_LoopTerminates ==
  op = "poll" =>
    /\ ret.kind = "some" => Len(src) + 3 <= Len(pre)
    /\ ~draining => ret.kind = "none"

(***************************************************************************)
(* C16: eventual delivery.  When every byte written arrives in the end and *)
(* decode is called after each chunk until it returns no-frame-yet, every  *)
(* frame whose footer has arrived is in the end returned as Some(payload), *)
(* and decode returns no-frame-yet only when no frame that has arrived in  *)
(* full is still in the buffer.                                            *)
(***************************************************************************)
\* the number of bytes of the stream that have arrived
Arrived == StreamLen(sent) - Len(dst)

\* the i-th frame has arrived, footer included
FrameArrived(i) ==
  i <= Len(sent) /\ StreamLen(SubSeq(sent, 1, i)) <= Arrived

\* the number of frames that have arrived in full
Complete == Cardinality({i \in 1..Len(sent) : FrameArrived(i)})

\* every frame that has arrived in full has been returned, unaltered
CaughtUp == delivered = SubSeq(sent, 1, Complete)

\* frames arrive and are returned in order and stay so, hence a frame that
\* has arrived is returned by the next time the receiver has caught up
C16_EventualDelivery ==
  /\ []<>CaughtUp
  /\ []((op = "poll" /\ ret.kind = "none") => CaughtUp)

C16_Witness ==
  /\ op = "poll"
  /\ ret = [kind |-> "some", payload |-> <<>>]
  /\ sent = <<<<28>>, <<>>, <<>>>>
  /\ delivered = <<<<28>>, <<>>>>
  /\ Complete = 2
  /\ CaughtUp

(***************************************************************************)
(* C17: embedded footer truncation.  For every payload P free of 0x0B      *)
(* whose first pair 0x1C,0x0D is at index k, decode on encode(P) returns   *)
(* Some(P[0..k]) and leaves P[k+2 ..] ++ 0x1C,0x0D in the buffer.          *)
(***************************************************************************)
C17_EmbeddedFooter ==
  DecodeCalled =>
    LET P == SubSeq(pre, 2, Len(pre) - 2)
    IN (Len(pre) >= 3 /\ pre = encode(P, <<>>) /\ ~HasHeader(P) /\ HasPair(P)) =>
         /\ ret = [kind |-> "some", payload |-> SubSeq(P, 1, FirstPair(P))]
         /\ src = From(P, FirstPair(P) + 2) \o <<28, 13>>

C17_Witness ==
  /\ DecodeCalled
  /\ pre = encode(<<97, 28, 13>>, <<>>)
  /\ ret = [kind |-> "some", payload |-> <<97>>]
  /\ src = <<28, 13>>

====
